---- MODULE Spec2Model ----
(***************************************************************************)
(* Model of the robot_arm backend core: the fixed 6x6 linear solver, the   *)
(* quintic boundary-value solver and the PMP minimum-jerk planner of       *)
(* robot_arm/include/trajectory.hpp, the SimpleDynamics arm state of       *)
(* include/dynamics.hpp and the ArmController request handler.             *)
(*                                                                         *)
(* The C++ code computes in IEEE doubles.  The model has two kinds of      *)
(* numbers, and the same definitions of the code run on both.  Exact reals *)
(* n/d * 10^e represent the thresholds 1e-9 and 1e-12 of the code,         *)
(* durations such as 1e-12 and the joint limit 3.14159 exactly: PlanSpec,  *)
(* QuinticSpec, DynSpec and the session specifications compute with them,  *)
(* which leaves the rounding of each operation out.  Doubles are binary64  *)
(* values with the rounding of every operation: SolveSpec and RoundSpec    *)
(* compute with them, for the properties that rounding decides.  An        *)
(* operation on a double and an exact real converts the exact real first,  *)
(* as a literal or an int is converted in the code.                        *)
(***************************************************************************)
EXTENDS Integers, Sequences, FiniteSets, TLC

(***************************************************************************)
(* Exact reals: [n, d, e] stands for (n / d) * 10^e, kept in the canonical *)
(* form  d > 0, gcd(n, d) = 1, d coprime to 10, n not a multiple of 10     *)
(* (zero is [0, 1, 0]), so that equal numbers are equal records.           *)
(***************************************************************************)
RECURSIVE GCD(_, _)
GCD(a, b) == IF b = 0 THEN a ELSE GCD(b, a % b)

IAbs(i) == IF i < 0 THEN -i ELSE i

RECURSIVE Pow10(_)
Pow10(k) == IF k = 0 THEN 1 ELSE 10 * Pow10(k - 1)

\* floor(y / 10^k) for y >= 0, without forming 10^k
RECURSIVE ShiftDown(_, _)
ShiftDown(y, k) == IF k = 0 \/ y = 0 THEN y ELSE ShiftDown(y \div 10, k - 1)

RECURSIVE StripNum(_, _, _)
StripNum(n, d, e) ==
    IF n % 10 = 0 THEN StripNum(n \div 10, d, e + 1) ELSE [n |-> n, d |-> d, e |-> e]

RECURSIVE StripDen(_, _, _)
StripDen(n, d, e) ==
    IF d % 10 = 0 THEN StripDen(n, d \div 10, e - 1)
    ELSE IF d % 2 = 0 THEN StripDen(n * 5, d \div 2, e - 1)
    ELSE IF d % 5 = 0 THEN StripDen(n * 2, d \div 5, e - 1)
    ELSE [n |-> n, d |-> d, e |-> e]

\* the canonical form of (n / d) * 10^e, d > 0
Norm(n, d, e) ==
    IF n = 0 THEN [n |-> 0, d |-> 1, e |-> 0]
    ELSE LET g == GCD(IAbs(n), d)
             s == StripNum(n \div g, d \div g, e)
         IN  StripDen(s.n, s.d, s.e)

RInt(i) == Norm(i, 1, 0)
Dec(m, e) == Norm(m, 1, e)          \* the decimal m * 10^e
Frac(n, d) == Norm(n, d, 0)
RZero == RInt(0)

(***************************************************************************)
(* Natural numbers of any size, for the 53-bit significands of doubles: a  *)
(* sequence of digits in base 2^15, least significant first, without       *)
(* leading zero digits (zero is <<>>).                                     *)
(***************************************************************************)
Limb == 32768
LimbBits == 15

\* Arith(op, v) is the operation named op on the operands v; the operation X
\* is defined as XBody below.  The operations call one another through Arith,
\* so that each is evaluated from one definition however many of them use it.
RECURSIVE Arith(_, _)

Pow2(k) == Arith("Pow2", <<k>>)
BTrim(a) == Arith("BTrim", <<a>>)
BNat(n) == Arith("BNat", <<n>>)
BInt(a) == Arith("BInt", <<a>>)
BBits(a) == Arith("BBits", <<a>>)
BAdd(a, b) == Arith("BAdd", <<a, b>>)
BSub(a, b) == Arith("BSub", <<a, b>>)
BCmp(a, b) == Arith("BCmp", <<a, b>>)
BScale(a, k) == Arith("BScale", <<a, k>>)
BUp(a, q) == Arith("BUp", <<a, q>>)
BMul(a, b) == Arith("BMul", <<a, b>>)
BShl(a, k) == Arith("BShl", <<a, k>>)
BShr(a, k) == Arith("BShr", <<a, k>>)
BPow10(k) == Arith("BPow10", <<k>>)
FRound(neg, n, x, sticky) == Arith("FRound", <<neg, n, x, sticky>>)
FRatio(neg, n, d, x) == Arith("FRatio", <<neg, n, d, x>>)
FMagLt(a, b) == Arith("FMagLt", <<a, b>>)
F64(a) == Arith("F64", <<a>>)
FAdd(a, b) == Arith("FAdd", <<a, b>>)
FMul(a, b) == Arith("FMul", <<a, b>>)
FDiv(a, b) == Arith("FDiv", <<a, b>>)
FLt(a, b) == Arith("FLt", <<a, b>>)
FRoundInt(a) == Arith("FRoundInt", <<a>>)

Pow2Body(k) == IF k = 0 THEN 1 ELSE 2 * Pow2(k - 1)

RECURSIVE BitsOf(_)
BitsOf(n) == IF n = 0 THEN 0 ELSE 1 + BitsOf(n \div 2)

BTrimBody(a) ==
    IF Len(a) = 0 THEN a
    ELSE IF a[Len(a)] = 0 THEN BTrim(SubSeq(a, 1, Len(a) - 1))
    ELSE a

BNatBody(n) == IF n = 0 THEN <<>> ELSE <<n % Limb>> \o BNat(n \div Limb)

\* the value of a, for a below 2^31
BIntBody(a) == IF Len(a) = 0 THEN 0 ELSE a[1] + Limb * BInt(Tail(a))

BBitsBody(a) == IF Len(a) = 0 THEN 0 ELSE LimbBits * (Len(a) - 1) + BitsOf(a[Len(a)])

BOdd(a) == IF Len(a) = 0 THEN FALSE ELSE a[1] % 2 = 1

BDigit(a, i) == IF i <= Len(a) THEN a[i] ELSE 0

\* a + b; s is the digit sum of position i, carry included
RECURSIVE BAddFrom(_, _, _, _)
BAddFrom(a, b, i, s) ==
    IF i > Len(a) /\ i > Len(b)
    THEN IF s = 0 THEN <<>> ELSE <<s>>
    ELSE <<s % Limb>>
         \o BAddFrom(a, b, i + 1, BDigit(a, i + 1) + BDigit(b, i + 1) + s \div Limb)

BAddBody(a, b) == BAddFrom(a, b, 1, BDigit(a, 1) + BDigit(b, 1))

\* a - b for a >= b; s is the digit difference of position i, borrow included
RECURSIVE BSubFrom(_, _, _, _)
BSubFrom(a, b, i, s) ==
    IF i > Len(a) THEN <<>>
    ELSE <<s % Limb>>
         \o BSubFrom(a, b, i + 1,
                     BDigit(a, i + 1) - BDigit(b, i + 1) - (IF s < 0 THEN 1 ELSE 0))

BSubBody(a, b) == BTrim(BSubFrom(a, b, 1, BDigit(a, 1) - BDigit(b, 1)))

\* -1, 0 or 1 as a is below, equal to or above b
RECURSIVE BCmpAt(_, _, _)
BCmpAt(a, b, i) ==
    IF i = 0 THEN 0
    ELSE IF a[i] < b[i] THEN -1
    ELSE IF a[i] > b[i] THEN 1
    ELSE BCmpAt(a, b, i - 1)

BCmpBody(a, b) ==
    IF Len(a) < Len(b) THEN -1
    ELSE IF Len(a) > Len(b) THEN 1
    ELSE BCmpAt(a, b, Len(a))

\* a * k for 0 <= k <= Limb; s is the carry into position i
RECURSIVE BScaleFrom(_, _, _, _)
BScaleFrom(a, k, i, s) ==
    IF i > Len(a) THEN IF s = 0 THEN <<>> ELSE <<s>>
    ELSE <<(a[i] * k + s) % Limb>> \o BScaleFrom(a, k, i + 1, (a[i] * k + s) \div Limb)

BScaleBody(a, k) == IF k = 0 THEN <<>> ELSE BScaleFrom(a, k, 1, 0)

\* a * Limb^q
BUpBody(a, q) == IF Len(a) = 0 THEN a ELSE [i \in 1..q |-> 0] \o a

RECURSIVE BMulFrom(_, _, _)
BMulFrom(a, b, j) ==
    IF j > Len(b) THEN <<>>
    ELSE BAdd(BUp(BScale(a, b[j]), j - 1), BMulFrom(a, b, j + 1))

BMulBody(a, b) == BMulFrom(a, b, 1)

\* a * 2^k
BShlBody(a, k) == BUp(BScale(a, Pow2(k % LimbBits)), k \div LimbBits)

\* floor(a / d) for 0 < d < Limb, from the top digit down; s is the remainder
RECURSIVE BQuotFrom(_, _, _, _)
BQuotFrom(a, d, i, s) ==
    IF i = 0 THEN <<>>
    ELSE Append(BQuotFrom(a, d, i - 1, (s * Limb + a[i]) % d), (s * Limb + a[i]) \div d)

\* floor(a / 2^k)
BShrBody(a, k) ==
    IF k \div LimbBits >= Len(a) THEN <<>>
    ELSE BTrim(BQuotFrom(SubSeq(a, k \div LimbBits + 1, Len(a)), Pow2(k % LimbBits),
                         Len(a) - k \div LimbBits, 0))

BPow10Body(k) == IF k = 0 THEN <<1>> ELSE BScale(BPow10(k - 1), 10)

\* quotient and remainder of r by d: the shifted divisor ds = d * 2^i is
\* taken off where it fits, for i down to 0; q collects the quotient bits
\* (Len(q) is asked for so that q is evaluated at every turn)
RECURSIVE BDivLoop(_, _, _, _)
BDivLoop(r, ds, i, q) ==
    IF i < 0 \/ Len(q) < 0 THEN [q |-> q, r |-> r]
    ELSE IF BCmp(r, ds) >= 0
    THEN BDivLoop(BSub(r, ds), BShr(ds, 1), i - 1, BAdd(BScale(q, 2), <<1>>))
    ELSE BDivLoop(r, BShr(ds, 1), i - 1, BScale(q, 2))

BDivMod(a, d) ==
    IF BBits(a) < BBits(d) THEN [q |-> <<>>, r |-> a]
    ELSE BDivLoop(a, BShl(d, BBits(a) - BBits(d)), BBits(a) - BBits(d), <<>>)

(***************************************************************************)
(* Doubles (IEEE 754 binary64): [neg, m, x] stands for                     *)
(* (-1)^neg * m * 2^x with 2^52 <= m < 2^53; zero is [FALSE, <<>>, 0].     *)
(* Every operation rounds its exact result to the nearest double, ties to  *)
(* the even significand, as the hardware does.  The exponent is not        *)
(* bounded: overflow to infinity and subnormal results are not modelled    *)
(* (the values of the runs below stay far from both), nor is the sign of   *)
(* zero, which no comparison or magnitude of the code observes.            *)
(***************************************************************************)
Precision == 53

FZero == [neg |-> FALSE, m |-> <<>>, x |-> 0]

IsDouble(a) == "m" \in DOMAIN a

\* the significand m, 53 or 54 bits long after the round up, at exponent x
FCarry(neg, m, x) ==
    IF BBits(m) > Precision THEN [neg |-> neg, m |-> BShr(m, 1), x |-> x + 1]
    ELSE [neg |-> neg, m |-> m, x |-> x]

\* c compares the dropped bits with half a unit of the last kept place
FRoundsUp(c, sticky, kept) == c > 0 \/ (c = 0 /\ (sticky \/ BOdd(kept)))

\* n with its s lowest bits dropped, kept = floor(n / 2^s)
FRoundAt(neg, n, x, sticky, s, kept) ==
    FCarry(neg,
           IF FRoundsUp(BCmp(BSub(n, BShl(kept, s)), BShl(<<1>>, s - 1)), sticky, kept)
           THEN BAdd(kept, <<1>>) ELSE kept,
           x + s)

\* the double nearest to (-1)^neg * (n + r) * 2^x, where r = 0, or 0 < r < 1
\* when sticky (then n has more than 53 bits)
FRoundBody(neg, n, x, sticky) ==
    IF Len(n) = 0 THEN FZero
    ELSE IF BBits(n) <= Precision
    THEN [neg |-> neg, m |-> BShl(n, Precision - BBits(n)),
          x |-> x - (Precision - BBits(n))]
    ELSE FRoundAt(neg, n, x, sticky, BBits(n) - Precision, BShr(n, BBits(n) - Precision))

FNeg(a) == IF Len(a.m) = 0 THEN a ELSE [a EXCEPT !.neg = ~@]
FAbs(a) == [a EXCEPT !.neg = FALSE]

\* the sum of (-1)^an * A * 2^x and (-1)^bn * B * 2^x
FAddAt(an, bn, A, B, x) ==
    IF an = bn THEN FRound(an, BAdd(A, B), x, FALSE)
    ELSE IF BCmp(A, B) = 0 THEN FZero
    ELSE IF BCmp(A, B) > 0 THEN FRound(an, BSub(A, B), x, FALSE)
    ELSE FRound(bn, BSub(B, A), x, FALSE)

FAddFrom(a, b, x) == FAddAt(a.neg, b.neg, BShl(a.m, a.x - x), BShl(b.m, b.x - x), x)

\* an operand more than 64 binary places below the other is less than a
\* thousandth of its last place and leaves it as it is
FAddBody(a, b) ==
    IF Len(a.m) = 0 THEN b
    ELSE IF Len(b.m) = 0 THEN a
    ELSE IF a.x - b.x > 64 THEN a
    ELSE IF b.x - a.x > 64 THEN b
    ELSE FAddFrom(a, b, IF a.x < b.x THEN a.x ELSE b.x)

FMulBody(a, b) ==
    IF Len(a.m) = 0 \/ Len(b.m) = 0 THEN FZero
    ELSE FRound(a.neg # b.neg, BMul(a.m, b.m), a.x + b.x, FALSE)

FQuot(neg, qr, x) == FRound(neg, qr.q, x, Len(qr.r) > 0)

\* the double nearest to (-1)^neg * (n / d) * 2^x: the quotient of n * 2^k by
\* d has at least 55 bits
FRatioAt(neg, n, d, x, k) == FQuot(neg, BDivMod(BShl(n, k), d), x - k)

FRatioBody(neg, n, d, x) ==
    IF Len(n) = 0 THEN FZero
    ELSE IF d = <<1>> THEN FRound(neg, n, x, FALSE)
    ELSE FRatioAt(neg, n, d, x,
                  IF BBits(d) + 55 > BBits(n) THEN BBits(d) + 55 - BBits(n) ELSE 0)

\* a / b for b # 0
FDivBody(a, b) == FRatio(a.neg # b.neg, a.m, b.m, a.x - b.x)

\* |a| < |b| for a, b # 0
FMagLtBody(a, b) == a.x < b.x \/ (a.x = b.x /\ BCmp(a.m, b.m) < 0)

FLtBody(a, b) ==
    IF Len(a.m) = 0 THEN Len(b.m) > 0 /\ ~b.neg
    ELSE IF Len(b.m) = 0 THEN a.neg
    ELSE IF a.neg # b.neg THEN a.neg
    ELSE IF a.neg THEN FMagLt(b, a)
    ELSE FMagLt(a, b)

\* a literal or a converted integer: the double nearest to (n / d) * 10^e
ToDouble(r) ==
    IF r.e >= 0 THEN FRatio(r.n < 0, BMul(BNat(IAbs(r.n)), BPow10(r.e)), BNat(r.d), 0)
    ELSE FRatio(r.n < 0, BNat(IAbs(r.n)), BMul(BNat(r.d), BPow10(-r.e)), 0)

F64Body(a) == IF IsDouble(a) THEN a ELSE ToDouble(a)

\* the doubles of a vector and of a matrix
Doubles(v) == [i \in 1..Len(v) |-> F64(v[i])]
DoubleRows(A) == [i \in 1..Len(A) |-> Doubles(A[i])]

\* std::round of |a| < 2^31: the s = -a.x lowest bits are the fraction
FRoundOff(m, s, kept) ==
    BInt(kept) + (IF BCmp(BSub(m, BShl(kept, s)), BShl(<<1>>, s - 1)) >= 0 THEN 1 ELSE 0)

FRoundIntBody(a) ==
    IF Len(a.m) = 0 \/ -a.x > Precision THEN 0
    ELSE IF a.x >= 0 THEN (IF a.neg THEN -1 ELSE 1) * BInt(BShl(a.m, a.x))
    ELSE (IF a.neg THEN -1 ELSE 1) * FRoundOff(a.m, -a.x, BShr(a.m, -a.x))

\* the operations by name; an operation of the doubles converts an operand
\* that is an exact real first
Arith(op, v) ==
    CASE op = "BBits" -> BBitsBody(v[1])
      [] op = "BShl" -> BShlBody(v[1], v[2])
      [] op = "BShr" -> BShrBody(v[1], v[2])
      [] op = "BCmp" -> BCmpBody(v[1], v[2])
      [] op = "BAdd" -> BAddBody(v[1], v[2])
      [] op = "BSub" -> BSubBody(v[1], v[2])
      [] op = "BScale" -> BScaleBody(v[1], v[2])
      [] op = "BUp" -> BUpBody(v[1], v[2])
      [] op = "BTrim" -> BTrimBody(v[1])
      [] op = "Pow2" -> Pow2Body(v[1])
      [] op = "BMul" -> BMulBody(v[1], v[2])
      [] op = "FRound" -> FRoundBody(v[1], v[2], v[3], v[4])
      [] op = "F64" -> F64Body(v[1])
      [] op = "FAdd" -> FAddBody(F64(v[1]), F64(v[2]))
      [] op = "FMul" -> FMulBody(F64(v[1]), F64(v[2]))
      [] op = "FDiv" -> FDivBody(F64(v[1]), F64(v[2]))
      [] op = "FLt" -> FLtBody(F64(v[1]), F64(v[2]))
      [] op = "FMagLt" -> FMagLtBody(v[1], v[2])
      [] op = "FRatio" -> FRatioBody(v[1], v[2], v[3], v[4])
      [] op = "BNat" -> BNatBody(v[1])
      [] op = "BInt" -> BIntBody(v[1])
      [] op = "BPow10" -> BPow10Body(v[1])
      [] op = "FRoundInt" -> FRoundIntBody(v[1])

RNeg(a) == IF IsDouble(a) THEN FNeg(a) ELSE [n |-> -a.n, d |-> a.d, e |-> a.e]
RAbs(a) == IF IsDouble(a) THEN FAbs(a) ELSE [n |-> IAbs(a.n), d |-> a.d, e |-> a.e]

RAdd(a, b) ==
    IF IsDouble(a) \/ IsDouble(b) THEN FAdd(a, b)
    ELSE IF a.n = 0 THEN b
    ELSE IF b.n = 0 THEN a
    ELSE LET e  == IF a.e < b.e THEN a.e ELSE b.e
             g  == GCD(a.d, b.d)
             na == a.n * Pow10(a.e - e) * (b.d \div g)
             nb == b.n * Pow10(b.e - e) * (a.d \div g)
         IN  Norm(na + nb, (a.d \div g) * b.d, e)

RSub(a, b) == RAdd(a, RNeg(b))

RMul(a, b) ==
    IF IsDouble(a) \/ IsDouble(b) THEN FMul(a, b)
    ELSE IF a.n = 0 \/ b.n = 0 THEN RZero
    ELSE LET g1 == GCD(IAbs(a.n), b.d)
             g2 == GCD(IAbs(b.n), a.d)
         IN  Norm((a.n \div g1) * (b.n \div g2), (a.d \div g2) * (b.d \div g1), a.e + b.e)

\* a / b for b # 0
RDiv(a, b) ==
    IF IsDouble(a) \/ IsDouble(b) THEN FDiv(a, b)
    ELSE RMul(a, IF b.n < 0 THEN Norm(-b.d, -b.n, -b.e) ELSE Norm(b.d, b.n, -b.e))

\* the number of decimal digits of i > 0
RECURSIVE Digits(_)
Digits(i) == IF i < 10 THEN 1 ELSE 1 + Digits(i \div 10)

\* a > 0 lies strictly between 10^MagLo(a) and 10^MagHi(a)
MagLo(a) == Digits(a.n) - Digits(a.d) - 1 + a.e
MagHi(a) == Digits(a.n) - Digits(a.d) + 1 + a.e

\* a < b for a, b > 0: by magnitude when that decides, else by comparing
\* x * 10^k with y, never forming 10^k
PosLt(a, b) ==
    IF MagHi(a) <= MagLo(b) THEN TRUE
    ELSE IF MagHi(b) <= MagLo(a) THEN FALSE
    ELSE LET g == GCD(a.d, b.d)
             x == a.n * (b.d \div g)
             y == b.n * (a.d \div g)
             k == a.e - b.e
         IN  IF k >= 0 THEN x <= ShiftDown(y - 1, k)
             ELSE ~(y <= ShiftDown(x, -k))

RLt(a, b) ==
    IF IsDouble(a) \/ IsDouble(b) THEN FLt(a, b)
    ELSE IF a.n <= 0 /\ b.n > 0 THEN TRUE
    ELSE IF a.n < 0 /\ b.n = 0 THEN TRUE
    ELSE IF a.n >= 0 /\ b.n <= 0 THEN FALSE
    ELSE IF a.n > 0 THEN PosLt(a, b)
    ELSE PosLt(RNeg(b), RNeg(a))

RLe(a, b) == ~RLt(b, a)

RMax(a, b) == IF RLt(a, b) THEN b ELSE a


\* std::round: to the nearest integer, halves away from zero (x of moderate size)
RoundPos(a) ==
    IF RLt(a, Frac(1, 2)) THEN 0
    ELSE LET num == IF a.e >= 0 THEN a.n * Pow10(a.e) ELSE a.n
             den == IF a.e >= 0 THEN a.d ELSE a.d * Pow10(-a.e)
         IN  (num \div den) + (IF 2 * (num % den) >= den THEN 1 ELSE 0)

RRound(a) ==
    IF IsDouble(a) THEN FRoundInt(a)
    ELSE IF a.n < 0 THEN -RoundPos(RNeg(a)) ELSE RoundPos(a)

(***************************************************************************)
(* Vectors and matrices are sequences (the code's index i is i + 1 here).  *)
(* Eager turns a function expression into an evaluated tuple.              *)
(***************************************************************************)
Eager(s) == SubSeq(s, 1, Len(s))

Order == 6

(***************************************************************************)
(* solve6: Gaussian elimination with partial pivoting on the augmented     *)
(* matrix [A | b], then back substitution.                                 *)
(***************************************************************************)
PivotTol == Dec(1, -12)

\* the pivot search of one column: the first row of largest magnitude
RECURSIVE FindPivot(_, _, _, _)
FindPivot(M, col, r, piv) ==
    IF r > Order THEN piv
    ELSE FindPivot(M, col, r + 1,
                   IF RLt(RAbs(M[piv][col]), RAbs(M[r][col])) THEN r ELSE piv)

\* one column of the forward elimination, after the pivot row is chosen
Eliminate(M, col, piv) ==
    LET S    == [M EXCEPT ![piv] = M[col], ![col] = M[piv]]
        diag == S[col][col]
        prow == Eager([c \in 1..(Order + 1) |->
                        IF c >= col THEN RDiv(S[col][c], diag) ELSE S[col][c]])
    IN  Eager([r \in 1..Order |->
                IF r = col THEN prow
                ELSE IF r < col THEN S[r]
                ELSE LET f == S[r][col]
                     IN  Eager([c \in 1..(Order + 1) |->
                                 IF c >= col THEN RSub(S[r][c], RMul(f, prow[c]))
                                 ELSE S[r][c]])])

RECURSIVE Forward(_, _)
Forward(M, col) ==
    IF col > Order THEN [ok |-> TRUE, M |-> M]
    ELSE LET piv == FindPivot(M, col, col + 1, col)
         IN  IF RLt(RAbs(M[piv][col]), PivotTol)
             THEN [ok |-> FALSE, err |-> "solve6: singular system"]
             ELSE Forward(Eliminate(M, col, piv), col + 1)

\* the known terms added to the right-hand side instead of subtracted
RECURSIVE RowRestAdded(_, _, _, _, _)
RowRestAdded(M, r, c, x, s) ==
    IF c > Order THEN s
    ELSE RowRestAdded(M, r, c + 1, x, RAdd(s, RMul(M[r][c], x[c])))

RECURSIVE RowRest(_, _, _, _, _)
RowRest(M, r, c, x, s) ==
    IF c > Order THEN s
    ELSE RowRest(M, r, c + 1, x, RSub(s, RMul(M[r][c], x[c])))

RECURSIVE BackSub(_, _, _)
BackSub(M, r, x) ==
    IF r < 1 THEN x
    ELSE BackSub(M, r - 1, [x EXCEPT ![r] = RowRest(M, r, r + 1, x, M[r][Order + 1])])

\* lines 50-53: the augmented matrix [A | b]; its entries are doubles as soon
\* as one of them is
Augment(A, b, doubles) ==
    Eager([i \in 1..Order |->
            Eager([j \in 1..(Order + 1) |->
                    IF doubles THEN F64(Append(A[i], b[i])[j])
                    ELSE Append(A[i], b[i])[j]])])

solve6(A, b) ==
    IF Len(A) # Order \/ Len(b) # Order
    THEN [ok |-> FALSE, err |-> "solve6: bad dimensions"]
    ELSE IF \E i \in 1..Order : Len(A[i]) # Order
    THEN [ok |-> FALSE, err |-> "solve6: bad matrix row"]
    ELSE LET aug == Augment(A, b, \E i \in 1..Order :
                                     \E j \in 1..Order : IsDouble(A[i][j]) \/ IsDouble(b[j]))
             fw  == Forward(aug, 1)
         IN  IF ~fw.ok THEN fw
             ELSE [ok |-> TRUE, x |-> BackSub(fw.M, Order, [i \in 1..Order |-> RZero])]

(***************************************************************************)
(* quintic_coeffs: the six boundary constraints of one joint.              *)
(***************************************************************************)
MinDuration == Dec(1, -9)

\* the acceleration row at 0 with the entry 1 in place of 2
QuinticMatrixSlip(T) ==
    LET TT  == T
        TT2 == RMul(TT, TT)
        TT3 == RMul(TT2, TT)
        TT4 == RMul(TT3, TT)
        TT5 == RMul(TT4, TT)
        O   == RZero
    IN  << <<RInt(1), O, O, O, O, O>>,
           <<O, RInt(1), O, O, O, O>>,
           <<O, O, RInt(1), O, O, O>>,
           <<RInt(1), TT, TT2, TT3, TT4, TT5>>,
           <<O, RInt(1), RMul(RInt(2), TT), RMul(RInt(3), TT2),
             RMul(RInt(4), TT3), RMul(RInt(5), TT4)>>,
           <<O, O, RInt(2), RMul(RInt(6), TT), RMul(RInt(12), TT2),
             RMul(RInt(20), TT3)>> >>

\* lines 97-138: the matrix of the six constraints
QuinticMatrix(T) ==
    LET TT  == T
        TT2 == RMul(TT, TT)
        TT3 == RMul(TT2, TT)
        TT4 == RMul(TT3, TT)
        TT5 == RMul(TT4, TT)
        O   == RZero
    IN  << <<RInt(1), O, O, O, O, O>>,
           <<O, RInt(1), O, O, O, O>>,
           <<O, O, RInt(2), O, O, O>>,
           <<RInt(1), TT, TT2, TT3, TT4, TT5>>,
           <<O, RInt(1), RMul(RInt(2), TT), RMul(RInt(3), TT2),
             RMul(RInt(4), TT3), RMul(RInt(5), TT4)>>,
           <<O, O, RInt(2), RMul(RInt(6), TT), RMul(RInt(12), TT2),
             RMul(RInt(20), TT3)>> >>

\* the duration check with < in place of <=
quintic_coeffs_lt(q0, v0, a0, q1, v1, a1, T) ==
    IF RLt(T, MinDuration)
    THEN [ok |-> FALSE, err |-> "quintic_coeffs: T too small"]
    ELSE solve6(QuinticMatrix(T), <<q0, v0, a0, q1, v1, a1>>)

quintic_coeffs(q0, v0, a0, q1, v1, a1, T) ==
    IF RLe(T, MinDuration)
    THEN [ok |-> FALSE, err |-> "quintic_coeffs: T too small"]
    ELSE solve6(QuinticMatrix(T), <<q0, v0, a0, q1, v1, a1>>)

(***************************************************************************)
(* plan_pmp_minimum_jerk, as the steps of one call.  A call is a record    *)
(* (its frame): the arguments, the locals N, coeffs, J_acc, the loop       *)
(* counter k, the vector out being built and, once thrown, the exception.  *)
(***************************************************************************)
IntMax == 2147483647
IntMin == -IntMax - 1

MinStep == Dec(1, -9)

\* the number of PMPPoint elements out.reserve can obtain
MaxSamples == 1000000

\* (int)std::round(x): the conversion is undefined when the rounded value does
\* not fit an int; the outcomes are those of the usual targets (x86 yields
\* INT_MIN for every such value, saturating targets the nearer end of the range)
RoundToInt(x) ==
    IF RLt(RInt(IntMax), x) THEN {IntMin, IntMax}
    ELSE IF RLt(x, RNeg(RInt(IntMax))) THEN {IntMin}
    ELSE {RRound(x)}

NoFrame == [pc |-> "none"]

Frame(q0, q1, T, dt) ==
    [pc |-> "entry", q0 |-> q0, q1 |-> q1, T |-> T, dt |-> dt,
     N |-> 0, coeffs |-> <<>>, k |-> 0, J_acc |-> RZero, out |-> <<>>, err |-> ""]

Throw(f, what) == [f EXCEPT !.pc = "error", !.err = what]

\* lines 235-238: N, out.reserve(N + 1)
PlanReserve(f) ==
    {LET N == IF 2 < c THEN c ELSE 2
     IN  IF N >= MaxSamples THEN Throw([f EXCEPT !.N = N], "std::bad_alloc")
         ELSE [f EXCEPT !.pc = "coeffs", !.N = N]
     : c \in RoundToInt(RDiv(f.T, RMax(f.dt, MinStep)))}

\* an entry without the size check
PlanEnterUnchecked(f) == PlanReserve(f)

\* lines 230-238: the size check, N, out.reserve(N + 1)
PlanEnter(f) ==
    IF Len(f.q1) # Len(f.q0)
    THEN {Throw(f, "plan_pmp_minimum_jerk: size mismatch")}
    ELSE PlanReserve(f)

\* lines 248-257: one turn of the coefficient loop, then J_acc = 0
PlanCoeffs(f) ==
    LET i == Len(f.coeffs) + 1
    IN  IF i > Len(f.q0)
        THEN [f EXCEPT !.pc = "sample", !.J_acc = RZero, !.k = 0]
        ELSE LET c == quintic_coeffs(f.q0[i], RZero, RZero, f.q1[i], RZero, RZero, f.T)
             IN  IF c.ok THEN [f EXCEPT !.coeffs = Append(@, c.x)]
                 ELSE Throw(f, c.err)

\* sample times counted from the first step instead of from 0
SampleTimeFromOne(k, dt, T) ==
    LET t == RMul(RInt(k + 1), dt)
    IN  IF RLt(T, t) THEN T ELSE t

\* lines 263-264: the sample time of turn k
SampleTime(k, dt, T) ==
    LET t == RMul(RInt(k), dt)
    IN  IF RLt(T, t) THEN T ELSE t

\* t1 + t2 + ... + tn, added from the left as a C++ expression is
RECURSIVE SumFrom(_, _, _)
SumFrom(terms, i, s) ==
    IF i > Len(terms) THEN s ELSE SumFrom(terms, i + 1, RAdd(s, terms[i]))

Sum(terms) == SumFrom(terms, 2, terms[1])

\* c * x * y, multiplied from the left
Mul3(c, x, y) == RMul(RMul(RInt(c), x), y)

\* <<tt, tt^2, ..., tt^n>>, each power the previous one times tt
RECURSIVE PowersFrom(_, _, _)
PowersFrom(p, tt, n) ==
    IF Len(p) >= n THEN p ELSE PowersFrom(Append(p, RMul(p[Len(p)], tt)), tt, n)

\* lines 293-311 on the powers p of the sample time: position, velocity,
\* acceleration and jerk
JointMotion(a, p) ==
    [q   |-> Sum(<<a[1], RMul(a[2], p[1]), RMul(a[3], p[2]), RMul(a[4], p[3]),
                   RMul(a[5], p[4]), RMul(a[6], p[5])>>),
     dq  |-> Sum(<<a[2], Mul3(2, a[3], p[1]), Mul3(3, a[4], p[2]),
                   Mul3(4, a[5], p[3]), Mul3(5, a[6], p[4])>>),
     ddq |-> Sum(<<RMul(RInt(2), a[3]), Mul3(6, a[4], p[1]), Mul3(12, a[5], p[2]),
                   Mul3(20, a[6], p[3])>>),
     u   |-> Sum(<<RMul(RInt(6), a[4]), Mul3(24, a[5], p[1]), Mul3(60, a[6], p[2])>>)]

\* costates with lambda3 = u, the sign forgotten
WithCostatesUnsigned(a, p, m) ==
    [q |-> m.q, dq |-> m.dq, ddq |-> m.ddq, u |-> m.u,
     lambda3 |-> m.u,
     lambda2 |-> Sum(<<RMul(RInt(24), a[5]), Mul3(120, a[6], p[1])>>),
     lambda1 |-> RNeg(RMul(RInt(120), a[6]))]

\* lines 314-326: the costates added to the motion m of the joint
WithCostates(a, p, m) ==
    [q |-> m.q, dq |-> m.dq, ddq |-> m.ddq, u |-> m.u,
     lambda3 |-> RNeg(m.u),
     lambda2 |-> Sum(<<RMul(RInt(24), a[5]), Mul3(120, a[6], p[1])>>),
     lambda1 |-> RNeg(RMul(RInt(120), a[6]))]

\* lines 293-327 on the powers p of the sample time
JointPoly(a, p) == WithCostates(a, p, JointMotion(a, p))

\* lines 289-327: one joint of one sample
JointSample(a, tt) == JointPoly(a, PowersFrom(<<tt>>, tt, 5))

\* lines 334-337: the squared norm of the jerk vector
RECURSIVE SumSquares(_, _, _)
SumSquares(u, i, u2) ==
    IF i > Len(u) THEN u2 ELSE SumSquares(u, i + 1, RAdd(u2, RMul(u[i], u[i])))

\* a cost assigned where it should be added
AccumulateCostAssigned(J_acc, u2, dt) == RMul(RMul(Dec(5, -1), u2), dt)

\* line 338: the cost accumulated up to and including this sample
AccumulateCost(J_acc, u2, dt) == RAdd(J_acc, RMul(RMul(Dec(5, -1), u2), dt))

\* line 344: the loop is over, out is returned
PlanDone(f) == [f EXCEPT !.pc = "done"]

\* lines 289-327: every joint of the sample at time t
JointSamples(f, t) == Eager([i \in 1..Len(f.q0) |-> JointSample(f.coeffs[i], t)])

\* lines 266-339: the PMPPoint at time t from its joints' values
PointOf(f, t, js) ==
    LET dof == Len(js)
        u   == Eager([i \in 1..dof |-> js[i].u])
    IN  [t |-> t,
         q       |-> [i \in 1..dof |-> js[i].q],
         dq      |-> [i \in 1..dof |-> js[i].dq],
         ddq     |-> [i \in 1..dof |-> js[i].ddq],
         u       |-> u,
         lambda1 |-> [i \in 1..dof |-> js[i].lambda1],
         lambda2 |-> [i \in 1..dof |-> js[i].lambda2],
         lambda3 |-> [i \in 1..dof |-> js[i].lambda3],
         J_acc   |-> AccumulateCost(f.J_acc, SumSquares(u, 1, RZero), f.dt)]

\* lines 263-339: the PMPPoint of turn k
SamplePoint(f) ==
    LET t == SampleTime(f.k, f.dt, f.T) IN PointOf(f, t, JointSamples(f, t))

\* lines 338-341: the point is appended and the loop goes on
PushPoint(f, p) == [f EXCEPT !.J_acc = p.J_acc, !.out = Append(@, p), !.k = @ + 1]

\* a sampling loop that rejects a sample time past T instead of clamping it
PlanSampleStrict(f) ==
    IF RLt(f.T, RMul(RInt(f.k), f.dt))
    THEN Throw(f, "plan_pmp_minimum_jerk: t past T")
    ELSE PushPoint(f, SamplePoint(f))

\* lines 262-342: one turn of the sampling loop
PlanSample(f) == PushPoint(f, SamplePoint(f))

\* the frames one step of the call can lead to
PlanStep(f) ==
    CASE f.pc = "entry"  -> PlanEnter(f)
      [] f.pc = "coeffs" -> {PlanCoeffs(f)}
      [] f.pc = "sample" -> {IF f.k <= f.N THEN PlanSample(f) ELSE PlanDone(f)}
      [] OTHER           -> {}

\* the call run to its end: the frames it can return or throw in
RECURSIVE PlanRun(_)
PlanRun(f) ==
    IF f.pc \in {"done", "error"} THEN {f}
    ELSE UNION {PlanRun(g) : g \in PlanStep(f)}

plan_pmp_minimum_jerk(q0, q1, T, dt) == PlanRun(Frame(q0, q1, T, dt))

(***************************************************************************)
(* SimpleDynamics (dynamics.hpp): the arm state with its limits.           *)
(***************************************************************************)
DOF == 6

QLimit == Dec(314159, -5)
DqLimit == RInt(4)

Fill(n, v) == [i \in 1..n |-> v]

\* std::clamp(v, lo, hi)
Clamp(v, lo, hi) == IF RLt(v, lo) THEN lo ELSE IF RLt(hi, v) THEN hi ELSE v

\* the object after SimpleDynamics(dof)
SimpleDynamics(dof) ==
    [dof |-> dof,
     q |-> Fill(dof, RZero), dq |-> Fill(dof, RZero), tau |-> Fill(dof, RZero),
     qmin |-> Fill(dof, RNeg(QLimit)), qmax |-> Fill(dof, QLimit),
     dqmax |-> Fill(dof, DqLimit)]

\* a clampState that forgets the velocities
clampStatePositionsOnly(d) ==
    [d EXCEPT !.q = [i \in 1..Len(d.q) |->
                        IF i <= d.dof THEN Clamp(d.q[i], d.qmin[i], d.qmax[i])
                        ELSE d.q[i]]]

\* lines 51-56: the first dof components of each vector are clamped.  On a
\* vector shorter than dof (stored by a build without the assert) the loop runs
\* past its end; the vector keeps its length and the components it has are
\* clamped.
clampState(d) ==
    [d EXCEPT !.q  = [i \in 1..Len(d.q) |->
                         IF i <= d.dof THEN Clamp(d.q[i], d.qmin[i], d.qmax[i])
                         ELSE d.q[i]],
              !.dq = [i \in 1..Len(d.dq) |->
                         IF i <= d.dof
                         THEN Clamp(d.dq[i], RNeg(d.dqmax[i]), d.dqmax[i])
                         ELSE d.dq[i]]]

\* lines 29-30 of setState: the two vector assignments
storeState(d, q, dq) == [d EXCEPT !.q = q, !.dq = dq]

\* setState with vectors of length dof (the case its assert admits)
setState(d, q, dq) == clampState(storeState(d, q, dq))

\* lines 25-32: the ways a call of setState can end.  A failed assert aborts
\* the process; a build with NDEBUG has no assert and stores what it is given.
setStateCall(d, q, dq) ==
    IF Len(q) = d.dof /\ Len(dq) = d.dof
    THEN {[outcome |-> "returned", d |-> setState(d, q, dq)]}
    ELSE {[outcome |-> "aborted", d |-> d],
          [outcome |-> "returned", d |-> setState(d, q, dq)]}

\* lines 34-37, for tau of length dof
setTorque(d, tau) == [d EXCEPT !.tau = tau]

\* the velocities after step: line 43, then the clamp of line 44
StepVelocity(d, dt) ==
    [i \in 1..d.dof |->
        Clamp(RAdd(d.dq[i], RMul(dt, d.tau[i])), RNeg(d.dqmax[i]), d.dqmax[i])]

\* a step that advances the position by the old velocity (explicit Euler)
stepOldVelocity(d, dt) ==
    [d EXCEPT !.dq = StepVelocity(d, dt),
              !.q  = [i \in 1..d.dof |->
                         Clamp(RAdd(d.q[i], RMul(dt, d.dq[i])), d.qmin[i], d.qmax[i])]]

\* a step that integrates the position without the clamp of line 46
stepUnclamped(d, dt) ==
    [d EXCEPT !.dq = StepVelocity(d, dt),
              !.q  = [i \in 1..d.dof |->
                         RAdd(d.q[i], RMul(dt, StepVelocity(d, dt)[i]))]]

\* lines 40-48: the velocity is advanced and clamped, then the position is
\* advanced by the new velocity and clamped
step(d, dt) ==
    [d EXCEPT !.dq = StepVelocity(d, dt),
              !.q  = [i \in 1..d.dof |->
                         Clamp(RAdd(d.q[i], RMul(dt, StepVelocity(d, dt)[i])),
                               d.qmin[i], d.qmax[i])]]

(***************************************************************************)
(* ArmController::handlePlanPMP_Q.  A request is its body: json is FALSE   *)
(* for a body that does not parse; q_target is the array (the empty one    *)
(* with is_array FALSE when the member is missing or no array); T and dt   *)
(* are numbers, with has_T / has_dt FALSE when the member is missing.      *)
(***************************************************************************)
DefaultT == RInt(1)
DefaultDt == Dec(2, -2)

Absent == "none"

Request(q_target, T, dt) ==
    [json |-> TRUE, is_array |-> TRUE, q_target |-> q_target,
     has_T |-> TRUE, T |-> T, has_dt |-> TRUE, dt |-> dt]

\* the constructor: dyn_(6), then setState of zeros
ArmController == setState(SimpleDynamics(DOF), Fill(DOF, RZero), Fill(DOF, RZero))

\* to_q6_json: always six values, missing ones zero
to_q6_json(q) == [i \in 1..6 |-> IF i <= Len(q) THEN q[i] ELSE RZero]

NoResponse == [status |-> 0]

BadRequest(what) == [status |-> 400, body |-> what]

\* the validation of the body: the 400 response, or NoResponse when it passes
Validate(req) ==
    IF ~req.json THEN BadRequest("Bad JSON body")
    ELSE IF ~req.is_array
    THEN BadRequest("Not enough parameters: q_target (array)")
    ELSE IF Len(req.q_target) < 6 THEN BadRequest("q_target must have 6 values")
    ELSE NoResponse

Target6(req) == SubSeq(req.q_target, 1, 6)
ReqT(req)  == IF req.has_T THEN req.T ELSE DefaultT
ReqDt(req) == IF req.has_dt THEN req.dt ELSE DefaultDt

\* lines 87-88: a state of fewer than 6 joints is replaced by zeros
\* the state reset whatever its size
EnsureSixAlways(d) == setState(d, Fill(6, RZero), Fill(6, RZero))

EnsureSix(d) ==
    IF Len(d.q) < 6 THEN setState(d, Fill(6, RZero), Fill(6, RZero)) ELSE d

\* the start pose read from the state
StartPose(d) == SubSeq(d.q, 1, 6)

\* lines 98-107: the vectors handed to setState, the target with velocity zero
\* in the first six places
TargetState(d, q_target6) ==
    LET q6  == IF Len(d.q) < 6 THEN Fill(6, RZero) ELSE d.q
        dq6 == IF Len(d.dq) < 6 THEN Fill(6, RZero) ELSE d.dq
    IN  [q  |-> [i \in 1..Len(q6) |-> IF i <= 6 THEN q_target6[i] ELSE q6[i]],
         dq |-> [i \in 1..Len(dq6) |-> IF i <= 6 THEN RZero ELSE dq6[i]]]

\* the state written after the plan
CommitTarget(d, q_target6) ==
    LET s == TargetState(d, q_target6) IN setState(d, s.q, s.dq)

\* the response built from the trajectory
PlanResponse(dt, traj) ==
    [status |-> 200, dt |-> dt, unit |-> "rad",
     trajectory |-> [j \in 1..Len(traj) |-> [t |-> traj[j].t, q |-> to_q6_json(traj[j].q)]]]

\* an exception leaving the handler: the framework answers 500
ServerError(what) == [status |-> 500, body |-> what]

(***************************************************************************)
(* Ur5eTrajectoryClientQ (the Unity client) with the coroutines Unity runs *)
(* for it.  All of it runs on Unity's main thread: a coroutine runs from   *)
(* one yield to the next without interruption.  posts are the PostPlanQ    *)
(* coroutines waiting for their response, plays the PlayTrajectory         *)
(* coroutines waiting to be resumed (i is the number of poses applied so   *)
(* far), playRoutine the handle the object holds (a coroutine's handle is  *)
(* its number in order of start, NoRoutine is null), pose what the applier *)
(* was given last, errors the messages of Debug.LogError.                  *)
(***************************************************************************)
NoRoutine == 0

\* line 180: the frames the final pose is applied again
SettleFrames == 10

\* the object after Start, with the applier assigned in the Inspector or not
Ur5eTrajectoryClientQ(applier) ==
    [applier |-> applier, playRoutine |-> NoRoutine, posts |-> {}, plays |-> {},
     started |-> 0, pose |-> <<>>, errors |-> <<>>]

LogError(c, what) == [c EXCEPT !.errors = Append(@, what)]

\* lines 85-92: StopCoroutine ends the coroutine of the handle if it still runs
StopPlayback(c) ==
    IF c.playRoutine # NoRoutine
    THEN [c EXCEPT !.plays = {p \in @ : p.id # c.playRoutine},
                   !.playRoutine = NoRoutine]
    ELSE c

\* lines 95-116: StartCoroutine(PostPlanQ(q)) runs it up to the yield of
\* SendWebRequest
StartPostPlanQ(c, qTargetRad) ==
    [c EXCEPT !.started = @ + 1,
              !.posts = @ \cup {[id |-> c.started + 1, q_target |-> qTargetRad]}]

\* a float[] argument: null, or an array of values
NullArray == [null |-> TRUE, values |-> <<>>]
FloatArray(values) == [null |-> FALSE, values |-> values]

\* lines 67-82
RequestPlanQ(c, qTargetRad) ==
    IF ~c.applier THEN LogError(c, "applier is NULL")
    ELSE IF qTargetRad.null \/ Len(qTargetRad.values) < 6
    THEN LogError(c, "qTargetRad must be length 6.")
    ELSE StartPostPlanQ(StopPlayback(c), qTargetRad.values)

\* lines 150-175: StartCoroutine(PlayTrajectory(resp)) runs it up to its first
\* yield, which follows the first Apply; the handle is the value returned
StartPlayTrajectory(c, trajectory) ==
    [c EXCEPT !.started = @ + 1,
              !.plays = @ \cup {[id |-> c.started + 1, trajectory |-> trajectory, i |-> 1]},
              !.pose = trajectory[1].q]

\* line 146
Play(c, trajectory) ==
    [StartPlayTrajectory(c, trajectory) EXCEPT !.playRoutine = c.started + 1]

\* the results of the web request: no success (the server answered 400 or 500,
\* or did not answer), a body that is no JSON, a body without points
HttpError == [result |-> "error"]
NotJson   == [result |-> "success", json |-> FALSE]
NoPoints  == [result |-> "success", json |-> TRUE, trajectory |-> <<>>]

Trajectory(points) == [result |-> "success", json |-> TRUE, trajectory |-> points]

\* lines 116-147: PostPlanQ p resumed with the result r of its request
PostPlanQResumed(c, p, r) ==
    IF r.result # "success"
    THEN LogError(LogError([c EXCEPT !.posts = @ \ {p}], "HTTP error"), "response")
    ELSE IF ~r.json
    THEN LogError(LogError([c EXCEPT !.posts = @ \ {p}], "JSON parse failed"), "raw")
    ELSE IF Len(r.trajectory) = 0
    THEN LogError([c EXCEPT !.posts = @ \ {p}], "Empty trajectory.")
    ELSE Play([c EXCEPT !.posts = @ \ {p}], r.trajectory)

\* lines 169-187: PlayTrajectory p resumed after a yield: the next pose of the
\* trajectory, then the last one SettleFrames times, then the end
PlayTrajectoryResumed(c, p) ==
    IF p.i < Len(p.trajectory)
    THEN [c EXCEPT !.plays = (@ \ {p}) \cup {[p EXCEPT !.i = @ + 1]},
                   !.pose = p.trajectory[p.i + 1].q]
    ELSE IF p.i < Len(p.trajectory) + SettleFrames
    THEN [c EXCEPT !.plays = (@ \ {p}) \cup {[p EXCEPT !.i = @ + 1]},
                   !.pose = p.trajectory[Len(p.trajectory)].q]
    ELSE [c EXCEPT !.plays = @ \ {p}, !.playRoutine = NoRoutine]

(***************************************************************************)
(* State.  call: the frame of the planner call in progress.  qc: one call  *)
(* of quintic_coeffs, its arguments and result.  dyn: the controller's     *)
(* SimpleDynamics object.  resp: the last response sent.  log: what each   *)
(* handled request read, planned and stored.  thr: the handler threads.    *)
(* client: the Unity client.                                               *)
(***************************************************************************)
VARIABLES call, qc, dyn, resp, log, thr, client

vars == <<call, qc, dyn, resp, log, thr, client>>

Threads == {1, 2}

IdleThread ==
    [pc |-> "idle", q_target |-> <<>>, T |-> RZero, dt |-> RZero, q0 |-> <<>>,
     traj |-> <<>>]

\* the parts of the state a specification does not use
NoCall    == call = NoFrame
NoQuintic == qc = Absent
NoSession == dyn = ArmController /\ resp = NoResponse /\ log = <<>>
NoThreads == thr = [h \in Threads |-> IdleThread]
NoClient  == client = Ur5eTrajectoryClientQ(TRUE)

(***************************************************************************)
(* PlanSpec: single calls of plan_pmp_minimum_jerk, step by step.          *)
(***************************************************************************)
Z6 == Fill(6, RZero)
E1 == [Z6 EXCEPT ![1] = RInt(1)]
S6 == <<RInt(1), RInt(-1), RZero, RInt(2), RZero, RInt(-2)>>
G6 == <<RZero, RInt(1), RInt(2), RInt(-1), RZero, RInt(3)>>
Z5 == Fill(5, RZero)

PlanStarts  == {Z6, E1, S6, Z5}
PlanTargets == {Z6, E1, G6, Z5}

\* <<T, dt>>: durations and steps with round(T/dt) exact, rounded down and
\* rounded up, T/dt below 2, durations at and below the thresholds
PlanTimings ==
    { <<RInt(1), Dec(1, -1)>>, <<RInt(1), Dec(5, -1)>>, <<RInt(1), Dec(3, -1)>>,
      <<RInt(1), Dec(4, -1)>>, <<RInt(1), RInt(1)>>, <<RInt(2), RInt(1)>>,
      <<RInt(7), RInt(3)>>,
      <<Dec(1, -12), Dec(2, -2)>>, <<RZero, Dec(2, -2)>>, <<RInt(-1), Dec(2, -2)>>,
      <<Dec(1, -9), Dec(2, -2)>>, <<Dec(1, -5), Dec(2, -2)>>,
      <<Dec(3, -9), Dec(1, -10)>>, <<Dec(1, -3), Dec(5, -4)>>,
      <<RInt(1), Dec(1, -10)>>, <<RInt(-3), Dec(1, -10)>> }

\* a step so small that round(T/dt) does not fit an int; the plans are those
\* of a joint at rest
HugeRatioTimings == { <<RInt(3), Dec(1, -9)>>, <<RInt(5), Dec(1, -10)>> }

PlanInputs ==
    {<<q0, q1, tm[1], tm[2]>> : q0 \in PlanStarts, q1 \in PlanTargets, tm \in PlanTimings}
    \cup {<<q, q, tm[1], tm[2]>> : q \in {Z6, E1}, tm \in HugeRatioTimings}

PlanInit ==
    /\ call \in {Frame(in[1], in[2], in[3], in[4]) : in \in PlanInputs}
    /\ NoQuintic /\ NoSession /\ NoThreads /\ NoClient

PlanEntry ==
    /\ call.pc = "entry"
    /\ call' \in PlanEnter(call)
    /\ UNCHANGED <<qc, dyn, resp, log, thr, client>>

PlanFit ==
    /\ call.pc = "coeffs"
    /\ call' = PlanCoeffs(call)
    /\ UNCHANGED <<qc, dyn, resp, log, thr, client>>

PlanLoop ==
    /\ call.pc = "sample"
    /\ call.k <= call.N
    /\ call' = PlanSample(call)
    /\ UNCHANGED <<qc, dyn, resp, log, thr, client>>

PlanReturn ==
    /\ call.pc = "sample"
    /\ call.k > call.N
    /\ call' = PlanDone(call)
    /\ UNCHANGED <<qc, dyn, resp, log, thr, client>>

PlanNext == PlanEntry \/ PlanFit \/ PlanLoop \/ PlanReturn

PlanSpec == PlanInit /\ [][PlanNext]_vars

(***************************************************************************)
(* Claims about plan_pmp_minimum_jerk, checked under PlanSpec.             *)
(***************************************************************************)
Returned == call.pc = "done"
Raised   == call.pc = "error"
Positive(x) == RLt(RZero, x)
ValidTiming == Positive(call.T) /\ Positive(call.dt)
FirstSample == call.out[1]
LastSample  == call.out[Len(call.out)]
Joints      == 1..Len(call.q0)
Moving      == \E i \in Joints : call.q0[i] # call.q1[i]

\* C1: in every returned trajectory of a call with T > 0 and dt > 0 the first
\* sample has t = 0 and the last sample has t = T.
C1_LastTimeIsDuration ==
    (Returned /\ ValidTiming) =>
        (FirstSample.t = RZero /\ LastSample.t = call.T)

\* C2: in every returned trajectory the accumulated cost of the first sample
\* is 0.
C2_FirstCostZero == Returned => FirstSample.J_acc = RZero

\* round(x) as an exact real
ExactRound(x) == IF x.d = 1 /\ x.e >= 0 THEN x ELSE RInt(RRound(x))

\* C5: a call with T > 0 and dt > 0 returns max(2, round(T / max(dt, 1e-9))) + 1
\* samples (stated on the count less one).
C5_SampleCount ==
    (Returned /\ ValidTiming) =>
        RInt(Len(call.out) - 1)
            = RMax(RInt(2), ExactRound(RDiv(call.T, RMax(call.dt, Dec(1, -9)))))

\* C6: in every returned trajectory of a call with T > 0 and dt > 0 the last
\* sample has every joint at its target with velocity and acceleration 0.
C6_LastSampleAtTarget ==
    (Returned /\ ValidTiming) =>
        \A i \in Joints : /\ LastSample.q[i] = call.q1[i]
                          /\ LastSample.dq[i] = RZero
                          /\ LastSample.ddq[i] = RZero

C9_NoPartialResult ==
    /\ [](Raised => call.out = <<>>)
    /\ [](Returned => Len(call.out) = call.N + 1)
    /\ [][call.pc = "sample" => call'.pc \in {"sample", "done"}]_vars

C9_Witness ==
    /\ Raised
    /\ call.err \in {"quintic_coeffs: T too small", "solve6: singular system"}
    /\ Len(call.q0) = 6

TooSmall(T) == RLe(T, Dec(1, -9))

\* C10: quintic_coeffs throws "T too small" for every T <= 1e-9, and a call
\* of the planner for 6 joints with such a T ends in that exception.
C10_DurationTooSmall ==
    TooSmall(call.T) =>
        /\ \A i \in 1..Len(call.q0) : \A j \in 1..Len(call.q1) :
              LET c == quintic_coeffs(call.q0[i], RZero, RZero,
                                      call.q1[j], RZero, RZero, call.T)
              IN  ~c.ok /\ c.err = "quintic_coeffs: T too small"
        /\ (Len(call.q0) = 6 /\ Len(call.q1) = 6) =>
              /\ ~Returned
              /\ Raised => (call.err = "quintic_coeffs: T too small"
                            /\ call.out = <<>>)
              /\ call.pc = "coeffs" => call.coeffs = <<>>

C10_Witness ==
    /\ Raised /\ call.T = Dec(1, -12) /\ Len(call.q0) = 6
    /\ call.err = "quintic_coeffs: T too small"

SizeMismatch == Raised /\ call.err = "plan_pmp_minimum_jerk: size mismatch"

\* C11: a call whose q_start is not of length 6 throws the size mismatch and
\* produces no sample, whatever the length of q_target.
C11_StartLengthChecked ==
    (Len(call.q0) # 6 /\ call.pc \in {"done", "error"}) =>
        (SizeMismatch /\ call.out = <<>>)

\* C11 as amended: a call whose q_start and q_target differ in length throws
\* the size mismatch and produces no sample; with equal lengths the size
\* mismatch is never thrown.
C11_LengthsCompared ==
    /\ Len(call.q0) # Len(call.q1) =>
          /\ ~Returned
          /\ call.pc \notin {"coeffs", "sample"}
          /\ Raised => (SizeMismatch /\ call.out = <<>>)
    /\ Len(call.q0) = Len(call.q1) => ~SizeMismatch

C11_Witness ==
    /\ SizeMismatch /\ Len(call.q0) = 5 /\ Len(call.q1) = 6 /\ call.out = <<>>
    /\ Positive(call.T) /\ Positive(call.dt)

\* C14: in every returned trajectory of a call with dt > 0 the accumulated
\* cost never decreases from one sample to the next.
C14_CostNonDecreasing ==
    (Returned /\ Positive(call.dt)) =>
        \A k \in 2..Len(call.out) :
            RLe(call.out[k - 1].J_acc, call.out[k].J_acc)

C14_Witness ==
    /\ Returned /\ Positive(call.dt) /\ Moving /\ Len(call.out) >= 4
    /\ \A k \in 2..Len(call.out) : RLt(call.out[k - 1].J_acc, call.out[k].J_acc)

\* C15: in every sample of a returned trajectory and for every joint,
\* lambda3 is the jerk u of that sample negated: their sum is 0.
C15_CostateIsMinusJerk ==
    Returned =>
        \A k \in 1..Len(call.out) :
            /\ Len(call.out[k].lambda3) = Len(call.q0)
            /\ Len(call.out[k].u) = Len(call.q0)
            /\ \A i \in Joints :
                  RAdd(call.out[k].lambda3[i], call.out[k].u[i]) = RZero

C15_Witness ==
    /\ Returned /\ Len(call.q0) = 6 /\ Len(call.out) >= 3
    /\ \E k \in 1..Len(call.out) :
          /\ RLt(RZero, call.out[k].u[2])
          /\ RLt(call.out[k].lambda3[2], RZero)
          /\ RLt(call.out[k].u[4], RZero)

(***************************************************************************)
(* RoundSpec: calls of plan_pmp_minimum_jerk on doubles, by the steps of   *)
(* PlanSpec.  The arguments are the doubles nearest to the decimals below. *)
(***************************************************************************)
ScenarioA == <<Z6, E1, RInt(1), Dec(2, -2)>>

RoundInputs ==
    { ScenarioA,
      <<Z6, E1, RInt(1), Dec(5, -1)>>,
      <<Z6, E1, RInt(2), Dec(5, -1)>>,
      <<E1, Z6, RInt(1), Dec(25, -2)>>,
      <<[Z6 EXCEPT ![2] = Dec(1, -1), ![5] = Dec(-12, -1)],
        [Z6 EXCEPT ![2] = Dec(7, -1), ![5] = Dec(-12, -1)], RInt(3), Dec(3, -1)>>,
      <<S6, G6, Dec(15, -1), Dec(1, -1)>>,
      <<Z6, E1, Dec(1, -3), Dec(2, -4)>> }

RoundInit ==
    /\ call \in {Frame(Doubles(in[1]), Doubles(in[2]), F64(in[3]), F64(in[4]))
                   : in \in RoundInputs}
    /\ NoQuintic /\ NoSession /\ NoThreads /\ NoClient

RoundSpec == RoundInit /\ [][PlanNext]_vars

\* C18: in every returned trajectory, for every joint i with
\* q_target[i] >= q_start[i], the position of joint i never decreases from
\* one sample to the next and stays within [q_start[i], q_target[i]].
C18_MonotoneWithinRange ==
    Returned =>
        \A i \in Joints :
            RLe(call.q0[i], call.q1[i]) =>
                \A k \in 1..Len(call.out) :
                    /\ RLe(call.q0[i], call.out[k].q[i])
                    /\ RLe(call.out[k].q[i], call.q1[i])
                    /\ k > 1 => RLe(call.out[k - 1].q[i], call.out[k].q[i])

(***************************************************************************)
(* QuinticSpec: single calls of quintic_coeffs on general boundary values. *)
(***************************************************************************)
Positions     == {RZero, RInt(1), Dec(-5, -1)}
Velocities    == {RZero, RInt(1), Dec(-5, -1)}
Accelerations == {RZero, RInt(2)}
Durations     == {RInt(1), RInt(2), Dec(5, -1), RInt(3), Dec(1, -3), Dec(1, -2),
                  Dec(1, -9),
                  Dec(1, -12), RZero}

QuinticInit ==
    /\ qc \in [q0 : Positions, v0 : Velocities, a0 : Accelerations,
               q1 : Positions, v1 : Velocities, a1 : Accelerations,
               T : Durations, pc : {"entry"}, res : {Absent}]
    /\ NoCall /\ NoSession /\ NoThreads /\ NoClient

QuinticCall ==
    /\ qc.pc = "entry"
    /\ qc' = [qc EXCEPT !.pc = "done",
                        !.res = quintic_coeffs(qc.q0, qc.v0, qc.a0,
                                               qc.q1, qc.v1, qc.a1, qc.T)]
    /\ UNCHANGED <<call, dyn, resp, log, thr, client>>

QuinticNext == QuinticCall

QuinticSpec == QuinticInit /\ [][QuinticNext]_vars

QuinticReturned == qc.pc = "done" /\ qc.res.ok

MaxRequests == 3

Lim  == [Z6 EXCEPT ![1] = QLimit]
Near == [Z6 EXCEPT ![1] = RSub(QLimit, RInt(1))]
Over == [Z6 EXCEPT ![1] = RInt(4)]
Seven == <<RInt(1), RZero, RZero, RZero, RZero, RZero, RInt(9)>>

SessionTargets == {E1, Lim, Near, Over, Seven}

\* the default dt of 0.02 gives 51 samples, whose exact values exceed the
\* 32-bit integers TLC computes in: every request carries dt
SessionTimings ==
    { <<RInt(1), Dec(5, -1)>>, <<RInt(1), Dec(3, -1)>>, <<Dec(1, -12), Dec(5, -1)>> }

PlanRequests ==
    { Request(q, tm[1], tm[2]) : q \in SessionTargets, tm \in SessionTimings }
        \cup { [Request(q, RZero, Dec(5, -1)) EXCEPT !.has_T = FALSE] : q \in {E1, Over} }
        \cup { Request(E1, Dec(1, -3), Dec(5, -4)) }

BadRequests ==
    { [Request(<<>>, RZero, RZero) EXCEPT !.json = FALSE],
      [Request(<<>>, RInt(1), Dec(5, -1)) EXCEPT !.is_array = FALSE],
      Request(Z5, RInt(1), Dec(5, -1)) }

\* the moves whose samples TLC's 32-bit integers can hold: every joint moves
\* by a one-digit amount
ShortMove(q0, q1) ==
    \A i \in 1..6 : LET d == RSub(q1[i], q0[i]) IN IAbs(d.n) < 10 /\ d.d = 1

SessionInit ==
    /\ dyn = ArmController /\ resp = NoResponse /\ log = <<>>
    /\ NoCall /\ NoQuintic /\ NoThreads /\ NoClient

\* a request answered 400
Reject ==
    /\ Len(log) < MaxRequests
    /\ \E req \in BadRequests :
          /\ Validate(req) # NoResponse
          /\ resp' = Validate(req)
          /\ log' = Append(log, [status |-> 400, start |-> <<>>, target |-> <<>>,
                                 final |-> <<>>])
    /\ UNCHANGED <<call, qc, dyn, thr, client>>

\* a request whose plan throws: the state is as EnsureSix left it
PlanFails ==
    /\ Len(log) < MaxRequests
    /\ \E req \in PlanRequests :
          LET d  == EnsureSix(dyn)
              q0 == StartPose(d)
          IN  /\ Validate(req) = NoResponse
              /\ ShortMove(q0, Target6(req))
              /\ \E f \in plan_pmp_minimum_jerk(q0, Target6(req), ReqT(req), ReqDt(req)) :
                    /\ f.pc = "error"
                    /\ dyn' = d
                    /\ resp' = ServerError(f.err)
                    /\ log' = Append(log, [status |-> 500, start |-> q0,
                                           target |-> Target6(req), final |-> <<>>])
    /\ UNCHANGED <<call, qc, thr, client>>

\* a request answered with a trajectory
PlanCommits ==
    /\ Len(log) < MaxRequests
    /\ \E req \in PlanRequests :
          LET d  == EnsureSix(dyn)
              q0 == StartPose(d)
          IN  /\ Validate(req) = NoResponse
              /\ ShortMove(q0, Target6(req))
              /\ \E f \in plan_pmp_minimum_jerk(q0, Target6(req), ReqT(req), ReqDt(req)) :
                    /\ f.pc = "done"
                    /\ dyn' = CommitTarget(d, Target6(req))
                    /\ resp' = PlanResponse(ReqDt(req), f.out)
                    /\ log' = Append(log, [status |-> 200, start |-> q0,
                                           target |-> Target6(req),
                                           final |-> f.out[Len(f.out)].q])
    /\ UNCHANGED <<call, qc, thr, client>>

Init == SessionInit

Next == Reject \/ PlanFails \/ PlanCommits

Spec == Init /\ [][Next]_vars

\* the successful plans of the log, in order
Plans == SelectSeq(log, LAMBDA e : e.status = 200)

\* C3: each plan of a session starts at the previous plan's commanded target,
\* which is also the position of that plan's last sample, and the stored
\* velocity is zero after every plan.
C3_ChainedStart ==
    /\ \A k \in 2..Len(Plans) :
          /\ Plans[k].start = Plans[k - 1].target
          /\ Plans[k].start = Plans[k - 1].final
    /\ dyn.dq = Fill(6, RZero)

\* C20: a planning request that fails (answered 400 or 500: a q_target that
\* is too short, a duration too small, a singular system) leaves the stored
\* position and velocity as they were before the request.
C20_FailedPlanKeepsState ==
    [][(Len(log') = Len(log) + 1 /\ log'[Len(log')].status # 200)
          => (dyn'.q = dyn.q /\ dyn'.dq = dyn.dq)]_vars

C20_Witness ==
    /\ Len(log) = 3
    /\ log[1].status = 200 /\ log[2].status = 500 /\ log[3].status = 400
    /\ log[2].start = log[1].target /\ log[2].target # log[1].target
    /\ dyn.q = log[1].target /\ dyn.q # Z6 /\ dyn.dq = Z6

\* the failures of C20: the duration check and the singular system
C20_WitnessSingular ==
    /\ Len(log) = 2 /\ log[1].status = 200 /\ log[2].status = 500
    /\ resp = ServerError("solve6: singular system")
    /\ dyn.q = log[1].target /\ dyn.q # Z6

(***************************************************************************)
(* ThreadSpec: two requests handled on two threads of the framework, which *)
(* share the controller's SimpleDynamics object.  The handler takes no     *)
(* lock, so its accesses to the object interleave statement by statement:  *)
(* the read of the start pose, the plan (local), the two assignments of    *)
(* setState, and clampState.                                               *)
(***************************************************************************)
ThreadTargets == {E1, Lim, Over}

ThreadTimings == { <<RInt(1), Dec(5, -1)>>, <<Dec(1, -12), Dec(5, -1)>> }

ThreadRequests ==
    { Request(q, tm[1], tm[2]) : q \in ThreadTargets, tm \in ThreadTimings }

ThreadInit ==
    /\ dyn = ArmController /\ resp = NoResponse /\ log = <<>>
    /\ thr = [h \in Threads |-> IdleThread]
    /\ NoCall /\ NoQuintic /\ NoClient

\* lines 40-70: a request answered 400 touches nothing shared
ThreadReject(h) ==
    /\ thr[h].pc = "idle"
    /\ \E req \in BadRequests :
          /\ Validate(req) # NoResponse
          /\ resp' = Validate(req)
    /\ UNCHANGED <<call, qc, dyn, log, thr, client>>

\* lines 74-92: the request is parsed and the start pose read
ThreadRead(h) ==
    /\ thr[h].pc = "idle"
    /\ \E req \in ThreadRequests :
          LET d == EnsureSix(dyn)
          IN  /\ Validate(req) = NoResponse
              /\ ShortMove(StartPose(d), Target6(req))
              /\ dyn' = d
              /\ thr' = [thr EXCEPT ![h] =
                            [pc |-> "plan", q_target |-> Target6(req),
                             T |-> ReqT(req), dt |-> ReqDt(req),
                             q0 |-> StartPose(d), traj |-> <<>>]]
    /\ UNCHANGED <<call, qc, resp, log, client>>

\* line 95: the plan throws
ThreadPlanFails(h) ==
    /\ thr[h].pc = "plan"
    /\ \E f \in plan_pmp_minimum_jerk(thr[h].q0, thr[h].q_target, thr[h].T, thr[h].dt) :
          /\ f.pc = "error"
          /\ resp' = ServerError(f.err)
          /\ thr' = [thr EXCEPT ![h] = IdleThread]
    /\ UNCHANGED <<call, qc, dyn, log, client>>

\* line 95: the plan returns
ThreadPlan(h) ==
    /\ thr[h].pc = "plan"
    /\ \E f \in plan_pmp_minimum_jerk(thr[h].q0, thr[h].q_target, thr[h].T, thr[h].dt) :
          /\ f.pc = "done"
          /\ thr' = [thr EXCEPT ![h].pc = "store", ![h].traj = f.out]
    /\ UNCHANGED <<call, qc, dyn, resp, log, client>>

\* lines 98-108 and setState's assignments: the target is stored
ThreadStore(h) ==
    /\ thr[h].pc = "store"
    /\ LET s == TargetState(dyn, thr[h].q_target)
       IN  dyn' = storeState(dyn, s.q, s.dq)
    /\ thr' = [thr EXCEPT ![h].pc = "clamp"]
    /\ UNCHANGED <<call, qc, resp, log, client>>

\* setState's clampState, then lines 111-124: the response
ThreadClamp(h) ==
    /\ thr[h].pc = "clamp"
    /\ dyn' = clampState(dyn)
    /\ resp' = PlanResponse(thr[h].dt, thr[h].traj)
    /\ thr' = [thr EXCEPT ![h] = IdleThread]
    /\ UNCHANGED <<call, qc, log, client>>

ThreadNext ==
    \E h \in Threads :
        \/ ThreadReject(h)
        \/ ThreadRead(h)
        \/ ThreadPlanFails(h)
        \/ ThreadPlan(h)
        \/ ThreadStore(h)
        \/ ThreadClamp(h)

ThreadSpec == ThreadInit /\ [][ThreadNext]_vars

\* a thread between its read of the start pose and the end of its write
InSection(h) == thr[h].pc \in {"plan", "store", "clamp"}

\* C4: read, plan and write of a request are a critical section of the state
\* object: no two threads are inside it together, and the pose a thread is
\* about to overwrite is the pose its plan started from.
C4_CriticalSection ==
    /\ \A h1, h2 \in Threads : (InSection(h1) /\ InSection(h2)) => h1 = h2
    /\ \A h \in Threads : thr[h].pc = "store" => thr[h].q0 = StartPose(dyn)

(***************************************************************************)
(* DynSpec: calls of setState, setTorque and step on one SimpleDynamics of *)
(* 6 joints.  log holds the calls made: the operation, how it ended, its   *)
(* arguments and the state before it.                                      *)
(***************************************************************************)
MaxCalls == 3

DynPoses ==
    { Z6, Over,
      <<RInt(-5), QLimit, Dec(5, -1), RNeg(QLimit), Dec(-31416, -4), RInt(3)>> }

DynVelocities ==
    { Z6, <<RInt(5), RZero, RZero, RZero, RZero, RZero>>,
      <<Dec(-45, -1), RInt(4), RInt(1), RInt(-4), Dec(40001, -4), Dec(-5, -1)>> }

DynTorques ==
    { Z6, <<RInt(1), RInt(-10), RInt(1000), RZero, Dec(5, -1), RInt(-1)>> }

DynSteps == { Dec(5, -1), RInt(1), RInt(-1), RInt(100), RZero }

\* vectors whose length is not the 6 of the object
WrongLength == {Z5, Seven}

Running == IF Len(log) = 0 THEN TRUE ELSE log[Len(log)].outcome # "aborted"

Called(op, outcome, q, dq, dt) ==
    [op |-> op, outcome |-> outcome, q |-> q, dq |-> dq, dt |-> dt,
     prev |-> [q |-> dyn.q, dq |-> dyn.dq]]

DynInit ==
    /\ dyn = SimpleDynamics(DOF) /\ log = <<>> /\ resp = NoResponse
    /\ NoCall /\ NoQuintic /\ NoThreads /\ NoClient

\* setState with vectors of length 6
DynSetState ==
    /\ Running /\ Len(log) < MaxCalls
    /\ \E q \in DynPoses, dq \in DynVelocities :
          \E r \in setStateCall(dyn, q, dq) :
              /\ dyn' = r.d
              /\ log' = Append(log, Called("setState", r.outcome, q, dq, RZero))
    /\ UNCHANGED <<call, qc, resp, thr, client>>

\* setState with a vector of another length
DynSetStateWrongLength ==
    /\ Running /\ Len(log) < MaxCalls
    /\ \E q \in {Over} \cup WrongLength, dq \in {Z6} \cup WrongLength :
          /\ q \in WrongLength \/ dq \in WrongLength
          /\ \E r \in setStateCall(dyn, q, dq) :
                /\ dyn' = r.d
                /\ log' = Append(log, Called("setState", r.outcome, q, dq, RZero))
    /\ UNCHANGED <<call, qc, resp, thr, client>>

\* setTorque with a vector of length 6
DynSetTorque ==
    /\ Running /\ Len(log) < MaxCalls
    /\ \E tau \in DynTorques :
          /\ dyn' = setTorque(dyn, tau)
          /\ log' = Append(log, Called("setTorque", "returned", tau, <<>>, RZero))
    /\ UNCHANGED <<call, qc, resp, thr, client>>

\* step on a state of 6 joints
DynStep ==
    /\ Running /\ Len(log) < MaxCalls
    /\ Len(dyn.q) = dyn.dof /\ Len(dyn.dq) = dyn.dof
    /\ \E dt \in DynSteps :
          /\ dyn' = step(dyn, dt)
          /\ log' = Append(log, Called("step", "returned", <<>>, <<>>, dt))
    /\ UNCHANGED <<call, qc, resp, thr, client>>

DynNext == DynSetState \/ DynSetStateWrongLength \/ DynSetTorque \/ DynStep

DynSpec == DynInit /\ [][DynNext]_vars

LastCall == log[Len(log)]

FitsDof(e) == e.op = "setState" => (Len(e.q) = DOF /\ Len(e.dq) = DOF)

\* C12: a setState whose q or dq is not of length DOF ends in an error given
\* to its caller and stores neither vector.
C12_WrongLengthRejected ==
    (Len(log) > 0 /\ ~FitsDof(LastCall)) =>
        /\ LastCall.outcome = "thrown"
        /\ dyn.q = LastCall.prev.q /\ dyn.dq = LastCall.prev.dq

\* v brought into [lo, hi], stated by cases
Saturates(stored, v, lo, hi) ==
    /\ RLe(lo, stored) /\ RLe(stored, hi)
    /\ (RLe(lo, v) /\ RLe(v, hi)) => stored = v
    /\ RLt(hi, v) => stored = hi
    /\ RLt(v, lo) => stored = lo

\* C13: a setState with vectors of length DOF returns whatever the values,
\* and stores each position brought into [qmin, qmax] and each velocity
\* brought into [-dqmax, dqmax].
C13_SetStateClamps ==
    (Len(log) > 0 /\ LastCall.op = "setState" /\ FitsDof(LastCall)) =>
        /\ LastCall.outcome = "returned"
        /\ Len(dyn.q) = DOF /\ Len(dyn.dq) = DOF
        /\ \A i \in 1..DOF :
              /\ Saturates(dyn.q[i], LastCall.q[i], dyn.qmin[i], dyn.qmax[i])
              /\ Saturates(dyn.dq[i], LastCall.dq[i], RNeg(dyn.dqmax[i]), dyn.dqmax[i])

C13_Witness ==
    /\ Len(log) > 0 /\ LastCall.op = "setState" /\ FitsDof(LastCall)
    /\ LastCall.dq[1] = RInt(5) /\ dyn.dq[1] = RInt(4)
    /\ LastCall.q[1] = RInt(4) /\ dyn.q[1] = Dec(314159, -5)
    /\ dyn.q[2] = LastCall.q[2]

\* C19: after construction and any calls of setState, setTorque and step with
\* arguments of length DOF, every position is within [qmin, qmax], every
\* velocity within [-dqmax, dqmax], and the limits are those of construction.
C19_LimitsInvariant ==
    (\A k \in 1..Len(log) : FitsDof(log[k])) =>
        /\ Len(dyn.q) = DOF /\ Len(dyn.dq) = DOF
        /\ \A i \in 1..DOF :
              /\ RLe(dyn.qmin[i], dyn.q[i]) /\ RLe(dyn.q[i], dyn.qmax[i])
              /\ RLe(RNeg(dyn.dqmax[i]), dyn.dq[i]) /\ RLe(dyn.dq[i], dyn.dqmax[i])
        /\ dyn.qmin = Fill(DOF, Dec(-314159, -5))
        /\ dyn.qmax = Fill(DOF, Dec(314159, -5))
        /\ dyn.dqmax = Fill(DOF, RInt(4))

C19_Witness ==
    /\ Len(log) = 3 /\ \A k \in 1..3 : FitsDof(log[k])
    /\ log[1].op = "setState" /\ log[2].op = "setTorque"
    /\ LastCall.op = "step" /\ LastCall.dt = RInt(100)
    /\ dyn.dq[3] = RInt(4) /\ dyn.q[3] = Dec(314159, -5)
    /\ dyn.dq[2] = RInt(-4) /\ dyn.q[2] = Dec(-314159, -5)

\* the call just made is a step
Stepped == Len(log') = Len(log) + 1 /\ log'[Len(log')].op = "step"

\* C21: step(dt) is a semi-implicit Euler update of each joint: the velocity
\* becomes the old velocity plus dt times the torque, brought into
\* [-dqmax, dqmax]; the position becomes the old position plus dt times that
\* new velocity, brought into [qmin, qmax]; the torque vector is unchanged.
C21_SemiImplicitEuler ==
    [][Stepped =>
         /\ dyn'.tau = dyn.tau
         /\ Len(dyn'.q) = DOF /\ Len(dyn'.dq) = DOF
         /\ \A i \in 1..DOF :
               /\ Saturates(dyn'.dq[i],
                            RAdd(dyn.dq[i], RMul(log'[Len(log')].dt, dyn.tau[i])),
                            RNeg(dyn.dqmax[i]), dyn.dqmax[i])
               /\ Saturates(dyn'.q[i],
                            RAdd(dyn.q[i], RMul(log'[Len(log')].dt, dyn'.dq[i])),
                            dyn.qmin[i], dyn.qmax[i])]_vars

\* a step of 0.5 from rest under the torques 1, -10, 1000: joint 1 reaches the
\* velocity 0.5 and the position 0.25 (the old velocity would leave it at 0),
\* joints 2 and 3 have their velocities clamped and move by dt times the clamp
C21_Witness ==
    /\ Len(log) = 2 /\ log[1].op = "setTorque" /\ LastCall.op = "step"
    /\ LastCall.dt = Dec(5, -1)
    /\ LastCall.prev.q = Z6 /\ LastCall.prev.dq = Z6
    /\ dyn.tau = log[1].q /\ dyn.tau[1] = RInt(1) /\ dyn.tau[3] = RInt(1000)
    /\ dyn.dq[1] = Dec(5, -1) /\ dyn.q[1] = Dec(25, -2)
    /\ dyn.dq[2] = RInt(-4) /\ dyn.q[2] = RInt(-2)
    /\ dyn.dq[3] = RInt(4) /\ dyn.q[3] = RInt(2)

(***************************************************************************)
(* SolveSpec: single calls of solve6 on doubles.  qc holds the caller's    *)
(* matrix A and vector b, written as the exact values of their doubles     *)
(* (integers and binary fractions); solve6 takes both by value and works   *)
(* on its copies.                                                          *)
(***************************************************************************)
Mat(m) == [i \in 1..Len(m) |-> [j \in 1..Len(m[i]) |-> RInt(m[i][j])]]
Vec(v) == [i \in 1..Len(v) |-> RInt(v[i])]

Identity == Mat(<< <<1, 0, 0, 0, 0, 0>>, <<0, 1, 0, 0, 0, 0>>, <<0, 0, 1, 0, 0, 0>>,
                   <<0, 0, 0, 1, 0, 0>>, <<0, 0, 0, 0, 1, 0>>, <<0, 0, 0, 0, 0, 1>> >>)

\* every diagonal entry is zero: each column needs a row exchange
Exchange == Mat(<< <<0, 0, 0, 0, 0, 3>>, <<2, 0, 0, 0, 0, 0>>, <<0, -1, 0, 0, 0, 0>>,
                   <<0, 0, 5, 0, 0, 0>>, <<0, 0, 0, 1, 0, 0>>, <<0, 0, 0, 0, -4, 0>> >>)

Dense == Mat(<< <<2, 1, 0, -1, 1, 0>>, <<1, -2, 1, 0, 0, 1>>, <<0, 1, 2, 1, -1, 0>>,
                <<-1, 0, 1, -2, 0, 1>>, <<1, 0, -1, 0, 2, 1>>, <<0, 1, 0, 1, 1, -2>> >>)

Fractions ==
    [Identity EXCEPT ![1] = <<Dec(5, -1), Dec(25, -2), RZero, RInt(1), RZero, Dec(-125, -3)>>,
                     ![4] = <<RInt(3), RZero, RZero, Dec(25, -2), Dec(75, -2), RZero>>,
                     ![6] = <<RZero, RZero, Dec(375, -3), RZero, RInt(-2), Dec(5, -1)>>]

\* nonsingular, with a last pivot (the double nearest to 1e-13) below 1e-12
TinyPivot == [Identity EXCEPT ![6][6] = Dec(1, -13)]

\* singular: a zero row, two equal rows, a zero column, and two matrices whose
\* last row is a combination of the others (row 6 = row 1 + row 2 in the first)
ZeroRow    == [Dense EXCEPT ![3] = Z6]
EqualRows  == [Dense EXCEPT ![5] = Dense[2]]
ZeroColumn == [i \in 1..6 |-> [Dense[i] EXCEPT ![4] = RZero]]
RowSum == Mat(<< <<1, 2, 1, -1, 2, 1>>, <<2, 1, -1, 1, 1, 2>>, <<1, -1, 2, 2, -1, 1>>,
                 <<-1, 1, 1, 2, 1, -2>>, <<2, 1, 1, -1, -2, 1>>, <<3, 3, 0, 0, 3, 3>> >>)
RankFive == Mat(<< <<2, 2, -7, 6, -6, -6>>, <<-6, -9, 3, 9, 8, 1>>, <<9, 6, -7, -3, -5, -6>>,
                   <<-9, 6, -14, 13, 25, -12>>, <<1, 5, 0, -7, 6, -1>>, <<2, 7, -3, -6, 5, 0>> >>)

SolveMatrices ==
    { Identity, Exchange, Dense, Fractions, TinyPivot,
      QuinticMatrix(RInt(2)), QuinticMatrix(Dec(5, -1)),
      ZeroRow, EqualRows, ZeroColumn, RowSum, RankFive, Fill(6, Z6),
      SubSeq(Dense, 1, 5), [Dense EXCEPT ![2] = Z5], Append(Dense, Z6) }

SolveVectors ==
    { Z6, Vec(<<1, 2, 3, 4, 5, 6>>),
      <<Dec(5, -1), RInt(-1), Dec(25, -2), RZero, RInt(7), Dec(-375, -3)>>,
      Z5 }

SolveInit ==
    /\ qc \in [A : SolveMatrices, b : SolveVectors, pc : {"entry"}, res : {Absent}]
    /\ NoCall /\ NoSession /\ NoThreads /\ NoClient

SolveCall ==
    /\ qc.pc = "entry"
    /\ qc' = [qc EXCEPT !.pc = "done", !.res = solve6(DoubleRows(qc.A), Doubles(qc.b))]
    /\ UNCHANGED <<call, dyn, resp, log, thr, client>>

SolveNext == SolveCall

SolveSpec == SolveInit /\ [][SolveNext]_vars

SolveReturned == qc.pc = "done" /\ qc.res.ok
SolveRaised(what) == qc.pc = "done" /\ ~qc.res.ok /\ qc.res.err = what

\* A has six rows of six entries and b six entries
SixBySix == /\ Len(qc.A) = 6 /\ \A i \in 1..6 : Len(qc.A[i]) = 6
            /\ Len(qc.b) = 6

\* the matrix M without row 1 and column j
Minor(M, j) ==
    [r \in 1..(Len(M) - 1) |->
        [c \in 1..(Len(M) - 1) |-> M[r + 1][IF c < j THEN c ELSE c + 1]]]

\* the determinant in exact arithmetic, by cofactor expansion along the first row
RECURSIVE Det(_)
RECURSIVE DetFrom(_, _)
DetFrom(M, j) ==
    IF j > Len(M) THEN RZero
    ELSE RAdd(IF M[1][j] = RZero THEN RZero
              ELSE RMul(IF j % 2 = 1 THEN M[1][j] ELSE RNeg(M[1][j]),
                        Det(Minor(M, j))),
              DetFrom(M, j + 1))
Det(M) == IF Len(M) = 1 THEN M[1][1] ELSE DetFrom(M, 1)

\* row times x, summed from entry j on
RECURSIVE Dot(_, _, _)
Dot(row, x, j) ==
    IF j > Len(row) THEN RZero ELSE RAdd(RMul(row[j], x[j]), Dot(row, x, j + 1))

SolveTol == Dec(1, -9)

\* C16: for a nonsingular 6x6 matrix A and a vector b of length 6, the vector x
\* that solve6(A, b) returns satisfies A*x = b within tolerance (each entry
\* of A*x, computed in doubles, is within 1e-9 of that of b), and the
\* caller's A and b are left as they were.
C16_SolutionSolves ==
    /\ []((SolveReturned /\ Det(qc.A) # RZero) =>
            /\ Len(qc.res.x) = 6
            /\ \A i \in 1..6 :
                  RLe(RAbs(RSub(Dot(Doubles(qc.A[i]), qc.res.x, 1), F64(qc.b[i]))),
                      SolveTol))
    /\ [][qc'.A = qc.A /\ qc'.b = qc.b]_vars

C16_Witness ==
    /\ SolveReturned /\ qc.A = Dense /\ qc.b = Vec(<<1, 2, 3, 4, 5, 6>>)
    /\ Det(qc.A) = RInt(-128)
    /\ \A i \in 1..6 : qc.res.x[i] # F64(qc.b[i])
    /\ qc.res.x[1] = F64(Dec(-175, -2)) /\ qc.res.x[3] = F64(Dec(375, -2))

\* C17: for every singular 6x6 system solve6 raises "singular system" (at
\* some column no candidate pivot reaches 1e-12) and returns no vector.
C17_SingularRaises ==
    (qc.pc = "done" /\ SixBySix /\ Det(qc.A) = RZero) =>
        /\ SolveRaised("solve6: singular system")
        /\ "x" \notin DOMAIN qc.res

(***************************************************************************)
(* ClientSpec: calls of RequestPlanQ on one Ur5eTrajectoryClientQ, the     *)
(* results of its web requests and the resumptions of its coroutines, in   *)
(* any order the main thread can run them.  log holds the arguments of the *)
(* calls made.                                                             *)
(***************************************************************************)
MaxClientCalls == 3

\* targets of 6 values, one of 5, and null
ClientTargets == {FloatArray(E1), FloatArray(G6), FloatArray(Z5), NullArray}

\* the trajectory the server plans from rest to q_target, at its start, half
\* way and at its end
PlannedPoints(q_target) ==
    << [t |-> RZero, q |-> Z6],
       [t |-> Dec(5, -1), q |-> [i \in 1..6 |-> RMul(Dec(5, -1), q_target[i])]],
       [t |-> RInt(1), q |-> q_target] >>

\* what the web request of the PostPlanQ p can end with
WebResults(p) == {HttpError, NotJson, NoPoints, Trajectory(PlannedPoints(p.q_target))}

ClientInit ==
    /\ client \in {Ur5eTrajectoryClientQ(applier) : applier \in BOOLEAN}
    /\ NoCall /\ NoQuintic /\ NoSession /\ NoThreads

ClientRequest ==
    /\ Len(log) < MaxClientCalls
    /\ \E q \in ClientTargets :
          /\ client' = RequestPlanQ(client, q)
          /\ log' = Append(log, q)
    /\ UNCHANGED <<call, qc, dyn, resp, thr>>

ClientResponse ==
    /\ \E p \in client.posts : \E r \in WebResults(p) :
          client' = PostPlanQResumed(client, p, r)
    /\ UNCHANGED <<call, qc, dyn, resp, log, thr>>

ClientPlayback ==
    /\ \E p \in client.plays : client' = PlayTrajectoryResumed(client, p)
    /\ UNCHANGED <<call, qc, dyn, resp, log, thr>>

ClientNext == ClientRequest \/ ClientResponse \/ ClientPlayback

ClientSpec == ClientInit /\ [][ClientNext]_vars

\* C22: at most one PlayTrajectory coroutine is running at any time, whatever
\* the order of the calls of RequestPlanQ and of the responses, a second call
\* made while the first response is pending included.
C22_SinglePlayback == Cardinality(client.plays) <= 1

====
